---- MODULE Spec2Model ----
(***************************************************************************)
(* A model of the LMMS oscillator (include/Oscillator.h): the band         *)
(* selector, the closed-form wave-shape routines, the wavetable lookup,    *)
(* the ownership of the sub-oscillator chain and the per-frame update      *)
(* handlers; and of the step recorder (src/core/StepRecorder.cpp).         *)
(*                                                                         *)
(* Numbers.  A phase is the exact rational num / PhaseDen; a sample value  *)
(* is the exact rational v / ValDen.  PhaseDen is a power of two, so every *)
(* float operation of the wave-shape routines is exact on these inputs and *)
(* the rational arithmetic below is the float arithmetic of the code.      *)
(* A frequency is held in the log domain: cents above MIDI note 0, so that *)
(* 12 * log2(f / 440) is (cents - 6900) / 100.                             *)
(***************************************************************************)
EXTENDS Integers, Sequences, FiniteSets, TLC

VARIABLES
    \* calls of the band selector
    pcBand,       \* "idle" | "start" | "have_freq" | "done"
    bandArg,      \* the band handed to freqFromWaveTableBand, or NoBand
    freqArg,      \* the frequency handed to waveTableBandFromFreq
    bandRet,      \* what waveTableBandFromFreq returned, or NoBand
    \* calls of the wave-shape routines
    waveFn,       \* "idle" | "none" | the routine that ran
    sampleArg,    \* _sample, as a numerator over PhaseDen
    sampleRet,    \* the returned sample, as a numerator over ValDen
    waveFreq,     \* the value of m_freq that wtSample read
    wtRet,        \* what wtSample looked up: [band, f1, f2, frac]
    \* the oscillators on the heap
    status,       \* per oscillator: "free" | "live" | "deleted"
    m_subOsc,     \* per oscillator: its sub-oscillator, or NullOsc
    deleteCount,  \* per oscillator: how often it was deleted
    heapCorrupt,  \* an oscillator that was not live has been deleted
    \* what the host owns and the oscillators refer to
    hostFreq,         \* per oscillator: the float m_freq refers to
    hostDetuning,     \* per oscillator: the float m_detuning refers to
    hostPhaseOffset,  \* per oscillator: the float m_ext_phaseOffset refers to
    modAlgo,          \* the value of m_modulationAlgoModel of the main oscillator
    \* the oscillators' own state
    m_useWaveTable,   \* per oscillator
    m_phaseOffset,    \* per oscillator, a numerator over PhaseDen
    m_phase,          \* per oscillator, a numerator over PhaseDen
    \* the update call in progress
    pcUpdate,         \* "off" | "idle" | "frames"
    frame,            \* the loop counter of the handler
    frameLog,         \* what the last loop iteration did
    \* the step recorder
    m_isRecording,
    m_isStepInProgress,
    m_pattern,          \* the pattern recorded into, or NullPattern
    m_curStepNotes,     \* sequence of [key, pos, length, pressed, sinceReleased]
    m_curStepStartPos,  \* ticks
    m_curStepLength,    \* ticks
    m_stepsLength,      \* ticks
    timerActive,        \* m_updateReleasedTimer.isActive()
    timerLeft,          \* ms until m_updateReleasedTimer times out
    stepCall,           \* the last call: [op, key, dropped], dropped the
                        \* number of step notes it took off the list
    addedNotes,         \* the notes the last call added: [pattern, key, pos, length]
    \* wtSample of the older header, with the host's thread beside it
    pcWt,               \* "idle" | "indices" | "first" | "second"
    sharedFreq,         \* the float m_freq refers to
    wtPhase,            \* _sample, as a numerator over PhaseDen
    wtFirst,            \* the first table entry read: [band, index, freq]
    wtSecond            \* the second table entry read

bandVars == <<pcBand, bandArg, freqArg, bandRet>>
waveVars == <<waveFn, sampleArg, sampleRet, waveFreq, wtRet>>
ownVars == <<status, m_subOsc, deleteCount, heapCorrupt>>
hostVars == <<hostFreq, hostDetuning, hostPhaseOffset, modAlgo>>
oscVars == <<hostVars, m_useWaveTable, m_phaseOffset, m_phase, pcUpdate, frame, frameLog>>
stepVars == <<m_isRecording, m_isStepInProgress, m_pattern, m_curStepNotes,
              m_curStepStartPos, m_curStepLength, m_stepsLength, timerActive,
              timerLeft, stepCall, addedNotes>>
raceVars == <<pcWt, sharedFreq, wtPhase, wtFirst, wtSecond>>
vars == <<bandVars, waveVars, ownVars, oscVars, stepVars, raceVars>>

\* what the calls of one group leave alone
exceptBand == <<waveVars, ownVars, oscVars, stepVars, raceVars>>
exceptWave == <<bandVars, ownVars, oscVars, stepVars, raceVars>>
exceptOwn == <<bandVars, waveVars, oscVars, stepVars, raceVars>>
exceptOsc == <<bandVars, waveVars, ownVars, stepVars, raceVars>>
exceptStep == <<bandVars, waveVars, ownVars, oscVars, raceVars>>
exceptRace == <<bandVars, waveVars, ownVars, oscVars, stepVars>>

----------------------------------------------------------------------------
(* Machine integers and C arithmetic *)

INT_MAX == 2147483646 + 1
INT_MIN == (-INT_MAX) - 1

Abs(x) == IF x < 0 THEN -x ELSE x

\* C's integer division: the quotient truncated towards zero
TruncDiv(a, b) == IF a >= 0 THEN a \div b ELSE -((-a) \div b)

\* C's %: the remainder has the sign of the dividend
Rem(a, b) == a - b * TruncDiv(a, b)

\* ceil(a / b) for b > 0
CeilDiv(a, b) == -((-a) \div b)

\* a + b on a 32-bit int, b >= 0; a signed overflow is taken to wrap around
Add32(a, b) ==
    IF a > INT_MAX - b THEN INT_MIN + ((a - (INT_MAX - b)) - 1) ELSE a + b

\* static_cast<int> of a float that is NaN, infinite or out of the range of
\* int is undefined: the value the conversion instruction leaves
\* (0x80000000 on x86, the saturated value or 0 on ARM)
UndefinedCast == {INT_MIN, -1, 0, INT_MAX}

----------------------------------------------------------------------------
(* Constants of the oscillator *)

\* the length of one table period
WAVETABLE_LENGTH == 1024
\* OscillatorConstants: one table per semitone, 128 tables per wave shape
SEMITONES_PER_TABLE == 1
WAVE_TABLES_PER_WAVEFORM_COUNT == 128 \div SEMITONES_PER_TABLE

----------------------------------------------------------------------------
(* Bounds of the model *)

\* the frequency inputs: semitones below MIDI note 0 and above it, and the
\* grid step in cents
BelowRange == 1825
AboveRange == 1500
CentsStep == 50
\* bands handed to freqFromWaveTableBand: this many outside [0, count]
BandMargin == 2
\* the phase inputs span [-PhaseSpan, PhaseSpan]
PhaseSpan == 2
\* the oscillators that can be constructed
MaxOsc == 4
\* the frames of one update call
FramesPerBuffer == 2
\* the steps lengths the piano roll offers, and the positions and the
\* quantization it starts a recording with, in ticks
MaxStepsLength == 2
MaxStart == 1
Quantization == 2
\* the end of the pattern, in ticks: the cursor keys and the notes do not
\* take the cursor beyond it
MaxTicks == 2
\* the time between two looks at the clock, in ms
TimeStep == 35

----------------------------------------------------------------------------
(* Frequencies *)

NoBand == INT_MIN
NoFreq == [cls |-> "none", cents |-> 0]

PosFreq(c) == [cls |-> "pos", cents |-> c]
\* 0, a negative frequency, +infinity, NaN: log2f gives -inf, NaN, +inf, NaN
SpecialFreqs == {[cls |-> k, cents |-> 0] : k \in {"zero", "neg", "inf", "nan"}}

FreqInputs ==
    {PosFreq(k * CentsStep) :
        k \in -((BelowRange * 100) \div CentsStep) .. ((AboveRange * 100) \div CentsStep)}
    \cup SpecialFreqs

\* static_cast<int>(ceil(12.0f * log2f(freq / 440.0f))): the values the
\* expression can take.  A frequency on a semitone boundary is the float
\* nearest to it, and log2f rounds: the ceiling lands on either side.
SemitonesFromA4(freq) ==
    IF freq.cls = "pos"
    THEN IF freq.cents % 100 = 0
         THEN {(freq.cents - 6900) \div 100, ((freq.cents - 6900) \div 100) + 1}
         ELSE {CeilDiv(freq.cents - 6900, 100)}
    ELSE UndefinedCast

\* faulty variant: the lower limit forgotten
WaveTableBandFromFreq_NoFloor(freq) ==
    {LET band == TruncDiv(Add32(s, 69), SEMITONES_PER_TABLE)
     IN  IF band >= WAVE_TABLES_PER_WAVEFORM_COUNT - 1
         THEN WAVE_TABLES_PER_WAVEFORM_COUNT - 1
         ELSE band
     : s \in SemitonesFromA4(freq)}

\* Oscillator::waveTableBandFromFreq: the bands it can return (one, unless
\* SemitonesFromA4 is not determined)
WaveTableBandFromFreq(freq) ==
    {LET band == TruncDiv(Add32(s, 69), SEMITONES_PER_TABLE)
     IN  IF band <= 1
         THEN 1
         ELSE IF band >= WAVE_TABLES_PER_WAVEFORM_COUNT - 1
              THEN WAVE_TABLES_PER_WAVEFORM_COUNT - 1
              ELSE band
     : s \in SemitonesFromA4(freq)}

\* faulty variant: A4 taken to be MIDI note 57
FreqFromWaveTableBand_A4Is57(band) ==
    PosFreq(6900 + 100 * (band * SEMITONES_PER_TABLE - 57))

\* Oscillator::freqFromWaveTableBand:
\* 440 * 2^((band * SEMITONES_PER_TABLE - 69) / 12)
FreqFromWaveTableBand(band) ==
    PosFreq(6900 + 100 * (band * SEMITONES_PER_TABLE - 69))

----------------------------------------------------------------------------
(* Phases and samples *)

PhaseDen == 2 * WAVETABLE_LENGTH
ValDen == PhaseDen * PhaseDen
NoSample == -(4 * ValDen) - 1
NoLookup == [band |-> NoBand, f1 |-> -1, f2 |-> -1, frac |-> 0]

PhaseInputs == -(PhaseSpan * PhaseDen) .. (PhaseSpan * PhaseDen)

\* fraction( x ) = x - static_cast<int>( x )
Fraction(num) == Rem(num, PhaseDen)

\* the three pieces of triangleSample, at the phase fraction ph
TriangleRise(ph) == 4 * ph * PhaseDen
TriangleFall(ph) == 2 * ValDen - 4 * ph * PhaseDen
TriangleTail(ph) == 4 * ph * PhaseDen - 4 * ValDen

\* faulty variant: the middle piece starts from 1 instead of 2
TriangleSample_Middle1(num) ==
    LET ph == Fraction(num)
    IN  IF 4 * ph <= PhaseDen THEN TriangleRise(ph)
        ELSE IF 4 * ph <= 3 * PhaseDen THEN ValDen - 4 * ph * PhaseDen
        ELSE TriangleTail(ph)

TriangleSample(num) ==
    LET ph == Fraction(num)
    IN  IF 4 * ph <= PhaseDen THEN TriangleRise(ph)
        ELSE IF 4 * ph <= 3 * PhaseDen THEN TriangleFall(ph)
        ELSE TriangleTail(ph)

SawSample(num) == -ValDen + Fraction(num) * 2 * PhaseDen

\* faulty variant: the comparison made >=
SquareSample_Ge(num) == IF 2 * Fraction(num) >= PhaseDen THEN -ValDen ELSE ValDen

SquareSample(num) == IF 2 * Fraction(num) > PhaseDen THEN -ValDen ELSE ValDen

MoogSawSample(num) ==
    LET ph == Fraction(num)
    IN  IF 2 * ph < PhaseDen THEN -ValDen + ph * 4 * PhaseDen
        ELSE ValDen - 2 * ph * PhaseDen

\* faulty variant: the second half not mirrored
ExpSample_NoMirror(num) ==
    LET ph == Fraction(num)
    IN  -ValDen + 8 * ph * ph

ExpSample(num) ==
    LET ph0 == Fraction(num)
        ph == IF 2 * ph0 > PhaseDen THEN PhaseDen - ph0 ELSE ph0
    IN  -ValDen + 8 * ph * ph

\* frame = _sample * WAVETABLE_LENGTH, as a numerator over PhaseDen
WtFrame(num) == num * WAVETABLE_LENGTH

\* static_cast<f_cnt_t>(frame)
WtFrameInt(num) == TruncDiv(WtFrame(num), PhaseDen)

\* faulty variant: a negative remainder is left as it is
WtF1_NoFix(num) == Rem(WtFrameInt(num), WAVETABLE_LENGTH)

\* f1 of wtSample
WtF1(num) ==
    LET f == Rem(WtFrameInt(num), WAVETABLE_LENGTH)
    IN  IF f < 0 THEN f + WAVETABLE_LENGTH ELSE f

\* f2 of wtSample
WtF2(f) == IF f < WAVETABLE_LENGTH - 1 THEN f + 1 ELSE 0

\* Oscillator::wtSample: the table entries it interpolates and the weight,
\* for each band waveTableBandFromFreq(m_freq) can give
WtSample(num, m_freq) ==
    {[band |-> b, f1 |-> WtF1(num), f2 |-> WtF2(WtF1(num)),
      frac |-> Rem(WtFrame(num), PhaseDen)] : b \in WaveTableBandFromFreq(m_freq)}

----------------------------------------------------------------------------
(* The groups of variables at rest *)

BandIdle ==
    /\ pcBand = "idle"
    /\ bandArg = NoBand
    /\ freqArg = NoFreq
    /\ bandRet = NoBand

WaveIdle ==
    /\ waveFn = "idle"
    /\ sampleArg = 0
    /\ sampleRet = NoSample
    /\ waveFreq = NoFreq
    /\ wtRet = NoLookup

OscIds == 1 .. MaxOsc
NullOsc == 0

OwnIdle ==
    /\ status = [o \in OscIds |-> "free"]
    /\ m_subOsc = [o \in OscIds |-> NullOsc]
    /\ deleteCount = [o \in OscIds |-> 0]
    /\ heapCorrupt = FALSE

\* the two oscillators of a voice: the main one and its sub-oscillator
Main == 1
Sub == 2
Voice == {Main, Sub}

NoFrame ==
    [osc |-> NullOsc, phaseBefore |-> 0, sampled |-> 0, subWrapped |-> FALSE,
     band |-> NoBand, prevBand |-> NoBand, freq |-> NoFreq,
     recalcFrom |-> 0, recalcDelta |-> 0]

OscIdle ==
    /\ hostFreq = [o \in Voice |-> NoFreq]
    /\ hostDetuning = [o \in Voice |-> 0]
    /\ hostPhaseOffset = [o \in Voice |-> 0]
    /\ modAlgo = "none"
    /\ m_useWaveTable = [o \in Voice |-> FALSE]
    /\ m_phaseOffset = [o \in Voice |-> 0]
    /\ m_phase = [o \in Voice |-> 0]
    /\ pcUpdate = "off"
    /\ frame = 0
    /\ frameLog = NoFrame

NullPattern == "NULL"
NoKey == "none"
NoCall == [op |-> "none", key |-> NoKey, dropped |-> 0]

\* the step recorder as constructed
StepIdle ==
    /\ m_isRecording = FALSE
    /\ m_isStepInProgress = FALSE
    /\ m_pattern = NullPattern
    /\ m_curStepNotes = <<>>
    /\ m_curStepStartPos = 0
    /\ m_curStepLength = 0
    /\ m_stepsLength = 0
    /\ timerActive = FALSE
    /\ timerLeft = 0
    /\ stepCall = NoCall
    /\ addedNotes = <<>>

NoEntry == [band |-> NoBand, index |-> -1, freq |-> NoFreq]

RaceIdle ==
    /\ pcWt = "idle"
    /\ sharedFreq = NoFreq
    /\ wtPhase = 0
    /\ wtFirst = NoEntry
    /\ wtSecond = NoEntry

----------------------------------------------------------------------------
(* The band selector: one call of waveTableBandFromFreq on a frequency, or *)
(* freqFromWaveTableBand on a band and waveTableBandFromFreq on its result *)

BandInputs == (-BandMargin) .. (WAVE_TABLES_PER_WAVEFORM_COUNT + BandMargin)

InitBand ==
    /\ pcBand = "start"
    /\ \/ bandArg = NoBand /\ freqArg \in FreqInputs
       \/ bandArg \in BandInputs /\ freqArg = NoFreq
    /\ bandRet = NoBand
    /\ WaveIdle
    /\ OwnIdle
    /\ OscIdle
    /\ StepIdle
    /\ RaceIdle

CallFreqFromWaveTableBand ==
    /\ pcBand = "start"
    /\ bandArg # NoBand
    /\ freqArg' = FreqFromWaveTableBand(bandArg)
    /\ pcBand' = "have_freq"
    /\ UNCHANGED <<bandArg, bandRet, exceptBand>>

CallWaveTableBandFromFreq ==
    /\ \/ pcBand = "start" /\ bandArg = NoBand
       \/ pcBand = "have_freq"
    /\ bandRet' \in WaveTableBandFromFreq(freqArg)
    /\ pcBand' = "done"
    /\ UNCHANGED <<bandArg, freqArg, exceptBand>>

NextBand == CallFreqFromWaveTableBand \/ CallWaveTableBandFromFreq

SpecBand == InitBand /\ [][NextBand]_vars

----------------------------------------------------------------------------
(* The wave-shape routines: one call of one routine on one phase *)

\* the frequencies m_freq refers to while wtSample runs: A4, a frequency far
\* below the tables, one far above them, and 0
WaveFreqs ==
    {PosFreq(6900), PosFreq(-(BelowRange * 100)), PosFreq(AboveRange * 100),
     [cls |-> "zero", cents |-> 0]}

InitWave ==
    /\ waveFn = "none"
    /\ sampleArg \in PhaseInputs
    /\ sampleRet = NoSample
    /\ waveFreq = NoFreq
    /\ wtRet = NoLookup
    /\ BandIdle
    /\ OwnIdle
    /\ OscIdle
    /\ StepIdle
    /\ RaceIdle

CallSample(fn, value) ==
    /\ waveFn = "none"
    /\ waveFn' = fn
    /\ sampleRet' = value
    /\ UNCHANGED <<sampleArg, waveFreq, wtRet, exceptWave>>

CallTriangleSample == CallSample("triangle", TriangleSample(sampleArg))
CallSawSample == CallSample("saw", SawSample(sampleArg))
CallSquareSample == CallSample("square", SquareSample(sampleArg))
CallMoogSawSample == CallSample("moogSaw", MoogSawSample(sampleArg))
CallExpSample == CallSample("exp", ExpSample(sampleArg))

\* wtSample reads m_freq, which the host owns; waveFreq is the value it read
CallWtSample ==
    /\ waveFn = "none"
    /\ waveFn' = "wt"
    /\ \E f \in WaveFreqs :
          /\ waveFreq' = f
          /\ wtRet' \in WtSample(sampleArg, f)
    /\ UNCHANGED <<sampleArg, sampleRet, exceptWave>>

NextWave ==
    \/ CallTriangleSample
    \/ CallSawSample
    \/ CallSquareSample
    \/ CallMoogSawSample
    \/ CallExpSample
    \/ CallWtSample

SpecWave == InitWave /\ [][NextWave]_vars

----------------------------------------------------------------------------
(* Ownership of the sub-oscillator chain: the constructor takes the        *)
(* sub-oscillator, the destructor deletes it                               *)

\* the oscillators that `delete o` destroys, in order: o, then what
\* ~Oscillator deletes, m_subOsc, and so on down the chain.  The chain ends
\* at NULL, or at an oscillator that is not live any more, whose deletion
\* is undefined.
RECURSIVE DestructorChain(_)

\* faulty variant: the destructor leaves m_subOsc alone
DestructorChain_Leak(o) == IF o = NullOsc THEN <<>> ELSE <<o>>

DestructorChain(o) ==
    IF o = NullOsc THEN <<>>
    ELSE IF status[o] # "live" THEN <<o>>
    ELSE <<o>> \o DestructorChain(m_subOsc[o])

Range(seq) == {seq[i] : i \in 1 .. Len(seq)}

InitOwn ==
    /\ OwnIdle
    /\ BandIdle
    /\ WaveIdle
    /\ OscIdle
    /\ StepIdle
    /\ RaceIdle

\* Oscillator( ..., Oscillator * _m_subOsc = NULL ): new gives the next free
\* oscillator; the caller hands over NULL or any oscillator it holds
Construct(o, sub) ==
    /\ ~heapCorrupt
    /\ status[o] = "free"
    /\ \A p \in OscIds : p < o => status[p] # "free"
    /\ IF sub = NullOsc THEN TRUE ELSE status[sub] = "live"
    /\ status' = [status EXCEPT ![o] = "live"]
    /\ m_subOsc' = [m_subOsc EXCEPT ![o] = sub]
    /\ UNCHANGED <<deleteCount, heapCorrupt, exceptOwn>>

\* delete o, by the caller that holds o
Destroy(o) ==
    /\ ~heapCorrupt
    /\ status[o] = "live"
    /\ LET chain == DestructorChain(o)
       IN  /\ status' = [x \in OscIds |->
                            IF x \in Range(chain) THEN "deleted" ELSE status[x]]
           /\ deleteCount' = [x \in OscIds |->
                            IF x \in Range(chain) THEN deleteCount[x] + 1
                            ELSE deleteCount[x]]
           /\ heapCorrupt' = (\E x \in Range(chain) : status[x] # "live")
    /\ UNCHANGED <<m_subOsc, exceptOwn>>

NextOwn ==
    \/ \E o \in OscIds, sub \in OscIds \cup {NullOsc} : Construct(o, sub)
    \/ \E o \in OscIds : Destroy(o)

SpecOwn == InitOwn /\ [][NextOwn]_vars

----------------------------------------------------------------------------
(* Oscillator::update: a voice of a main oscillator and, optionally, its   *)
(* sub-oscillator.  The host owns frequency, detuning and phase offset and *)
(* changes them at any time; an update call runs recalcPhase and then one  *)
(* loop iteration per frame.  The output buffer is not part of the state.  *)

ModulationAlgos ==
    {"PhaseModulation", "AmplitudeModulation", "SignalMix",
     "SynchronizedBySubOsc", "FrequencyModulation"}

\* the frequencies the host sets: a low one and the one an octave above it
LowFreq == PosFreq(5750)
OscFreqs == {LowFreq, PosFreq(LowFreq.cents + 1200)}

\* freq / LowFreq, for the frequencies of OscFreqs
FreqRatio(freq) == 2 ^ ((freq.cents - LowFreq.cents) \div 1200)

\* the detunings the host sets (the factor 1 / sample rate included): with
\* LowFreq, a quarter of a period per frame, forwards or backwards
OscDetunings == {PhaseDen \div 4, -(PhaseDen \div 4)}

\* the phase offsets the host sets
OscOffsets == {0, PhaseDen \div 4}

\* faulty variant: the integer part cut off, which leaves a negative phase
\* negative
Wrap_Truncating(num) == Rem(num, PhaseDen)

\* the phase brought back into [0, 1)
Wrap(num) == num % PhaseDen

\* faulty variant: the frequency is read in the first wtSample call of an
\* update call and kept for the calls after it
WtFreqRead_OncePerBuffer(o) ==
    IF frameLog.freq = NoFreq THEN hostFreq[o] ELSE frameLog.freq

\* the value m_freq refers to, read when wtSample selects the band
WtFreqRead(o) == hostFreq[o]

\* m_freq * m_detuning: the phase increment of one frame
OscCoeff(o) == hostDetuning[o] * FreqRatio(hostFreq[o])

\* a sample value as a phase: value * one period
SampleAsPhase(v) == TruncDiv(v, PhaseDen)

\* getSample<SawWave> of the sub-oscillator, closed form
SubSample == SawSample(m_phase[Sub])

\* faulty variant: the offset the host set is added at every call
RecalcPhase_Accumulates(o) == Wrap(m_phase[o] + hostPhaseOffset[o])

\* Oscillator::recalcPhase: the phase after the offset the host set last
\* has replaced the offset applied before
RecalcPhase(o) ==
    IF hostPhaseOffset[o] # m_phaseOffset[o]
    THEN Wrap((m_phase[o] - m_phaseOffset[o]) + hostPhaseOffset[o])
    ELSE Wrap(m_phase[o])

\* Oscillator::syncOk on the sub-oscillator: its phase leaves [0, 1) in
\* this frame
SyncOk(coeff) ==
    LET p == m_phase[Sub] + coeff
    IN  p < 0 \/ p >= PhaseDen

\* One loop iteration of each handler on the main oscillator:
\* [sampled |-> the phase getSample is called with, next |-> m_phase after it]
UpdateNoSubFrame ==
    [sampled |-> m_phase[Main], next |-> Wrap(m_phase[Main] + OscCoeff(Main))]

UpdatePMFrame ==
    LET p == Wrap(m_phase[Main] + SampleAsPhase(SubSample))
    IN  [sampled |-> p, next |-> Wrap(p + OscCoeff(Main))]

UpdateAMFrame ==
    [sampled |-> m_phase[Main], next |-> Wrap(m_phase[Main] + OscCoeff(Main))]

UpdateMixFrame ==
    [sampled |-> m_phase[Main], next |-> Wrap(m_phase[Main] + OscCoeff(Main))]

\* faulty variant: the reset takes effect after the frame's sample
UpdateSyncFrame_ResetLate ==
    [sampled |-> m_phase[Main],
     next |-> IF SyncOk(OscCoeff(Sub)) THEN m_phaseOffset[Main]
              ELSE Wrap(m_phase[Main] + OscCoeff(Main))]

UpdateSyncFrame ==
    LET p == IF SyncOk(OscCoeff(Sub)) THEN m_phaseOffset[Main] ELSE m_phase[Main]
    IN  [sampled |-> p, next |-> Wrap(p + OscCoeff(Main))]

UpdateFMFrame ==
    LET inc == OscCoeff(Main)
               + TruncDiv(OscCoeff(Main) * SampleAsPhase(SubSample), PhaseDen)
    IN  [sampled |-> m_phase[Main], next |-> Wrap(m_phase[Main] + inc)]

HasSub == m_subOsc[Main] # NullOsc

\* Oscillator::update: the handler of the selected algorithm
Handler ==
    IF ~HasSub THEN UpdateNoSubFrame
    ELSE CASE modAlgo = "PhaseModulation" -> UpdatePMFrame
           [] modAlgo = "AmplitudeModulation" -> UpdateAMFrame
           [] modAlgo = "SignalMix" -> UpdateMixFrame
           [] modAlgo = "SynchronizedBySubOsc" -> UpdateSyncFrame
           [] modAlgo = "FrequencyModulation" -> UpdateFMFrame

InitOsc ==
    /\ status \in {[o \in OscIds |-> IF o = Main THEN "live" ELSE "free"],
                   [o \in OscIds |-> IF o \in Voice THEN "live" ELSE "free"]}
    /\ m_subOsc = [o \in OscIds |->
                      IF o = Main /\ status[Sub] = "live" THEN Sub ELSE NullOsc]
    /\ deleteCount = [o \in OscIds |-> 0]
    /\ heapCorrupt = FALSE
    /\ hostFreq = [o \in Voice |-> LowFreq]
    /\ hostDetuning \in [Voice -> OscDetunings]
    /\ hostPhaseOffset \in {[o \in Voice |-> IF o = Main THEN p ELSE 0] : p \in OscOffsets}
    /\ IF status[Sub] = "live"
       THEN modAlgo \in ModulationAlgos
       ELSE modAlgo = "SignalMix" /\ hostDetuning[Sub] = hostDetuning[Main]
    /\ m_useWaveTable = [o \in Voice |-> FALSE]
    /\ m_phaseOffset = hostPhaseOffset
    /\ m_phase = hostPhaseOffset
    /\ pcUpdate = "idle"
    /\ frame = 0
    /\ frameLog = NoFrame
    /\ BandIdle
    /\ WaveIdle
    /\ StepIdle
    /\ RaceIdle

\* the host sets the frequency of the main oscillator
HostSetFreq(f) ==
    /\ pcUpdate # "off"
    /\ f # hostFreq[Main]
    /\ hostFreq' = [hostFreq EXCEPT ![Main] = f]
    /\ UNCHANGED <<hostDetuning, hostPhaseOffset, modAlgo, m_useWaveTable,
                   m_phaseOffset, m_phase, pcUpdate, frame, frameLog, exceptOsc>>

\* the host sets the phase offset of the main oscillator
HostSetPhaseOffset(p) ==
    /\ pcUpdate # "off"
    /\ p # hostPhaseOffset[Main]
    /\ hostPhaseOffset' = [hostPhaseOffset EXCEPT ![Main] = p]
    /\ UNCHANGED <<hostFreq, hostDetuning, modAlgo, m_useWaveTable,
                   m_phaseOffset, m_phase, pcUpdate, frame, frameLog, exceptOsc>>

\* Oscillator::setUseWaveTable on the main oscillator, between update calls
SetUseWaveTable(n) ==
    /\ pcUpdate = "idle"
    /\ n # m_useWaveTable[Main]
    /\ m_useWaveTable' = [m_useWaveTable EXCEPT ![Main] = n]
    /\ UNCHANGED <<hostVars, m_phaseOffset, m_phase, pcUpdate, frame, frameLog,
                   exceptOsc>>

\* Oscillator::update is entered: recalcPhase, on the sub-oscillator too
UpdateBegin ==
    /\ pcUpdate = "idle"
    /\ m_phase' = [o \in Voice |->
                      IF o = Main \/ HasSub THEN RecalcPhase(o) ELSE m_phase[o]]
    /\ m_phaseOffset' = [o \in Voice |->
                      IF o = Main \/ HasSub THEN hostPhaseOffset[o]
                      ELSE m_phaseOffset[o]]
    /\ pcUpdate' = "frames"
    /\ frame' = 0
    /\ frameLog' = [NoFrame EXCEPT
                        !.recalcFrom = m_phase[Main],
                        !.recalcDelta = hostPhaseOffset[Main] - m_phaseOffset[Main]]
    /\ UNCHANGED <<hostVars, m_useWaveTable, exceptOsc>>

\* one loop iteration: the sub-oscillator's frame, then the main one's
UpdateFrame ==
    /\ pcUpdate = "frames"
    /\ frame < FramesPerBuffer
    /\ LET h == Handler
           wrapped == HasSub /\ modAlgo = "SynchronizedBySubOsc"
                             /\ SyncOk(OscCoeff(Sub))
       IN  /\ m_phase' = [o \in Voice |->
                IF o = Main THEN h.next
                ELSE IF HasSub THEN Wrap(m_phase[Sub] + OscCoeff(Sub))
                ELSE m_phase[o]]
           /\ \E l \in IF m_useWaveTable[Main]
                       THEN WtSample(h.sampled, WtFreqRead(Main))
                       ELSE {NoLookup} :
                 frameLog' = [osc |-> Main, phaseBefore |-> m_phase[Main],
                              sampled |-> h.sampled, subWrapped |-> wrapped,
                              band |-> l.band, prevBand |-> frameLog.band,
                              freq |-> IF m_useWaveTable[Main]
                                       THEN WtFreqRead(Main) ELSE NoFreq,
                              recalcFrom |-> frameLog.recalcFrom,
                              recalcDelta |-> frameLog.recalcDelta]
    /\ frame' = frame + 1
    /\ UNCHANGED <<hostVars, m_useWaveTable, m_phaseOffset, pcUpdate, exceptOsc>>

\* Oscillator::update returns
UpdateReturn ==
    /\ pcUpdate = "frames"
    /\ frame = FramesPerBuffer
    /\ pcUpdate' = "idle"
    /\ UNCHANGED <<hostVars, m_useWaveTable, m_phaseOffset, m_phase, frame,
                   frameLog, exceptOsc>>

NextOsc ==
    \/ \E f \in OscFreqs : HostSetFreq(f)
    \/ \E p \in OscOffsets : HostSetPhaseOffset(p)
    \/ \E n \in BOOLEAN : SetUseWaveTable(n)
    \/ UpdateBegin
    \/ UpdateFrame
    \/ UpdateReturn

SpecOsc == InitOsc /\ [][NextOsc]_vars

----------------------------------------------------------------------------
(* StepRecorder: the piano roll hands it the notes pressed and released on *)
(* the keyboard, the cursor keys and the pattern; m_updateReleasedTimer    *)
(* calls removeNotesReleasedForTooLong.  The calls transform the members,  *)
(* held in a record with a field per member; addedNotes collects what      *)
(* Pattern::addNote was handed during the call.                            *)

REMOVE_RELEASED_NOTE_TIME_THRESHOLD_MS == 70

\* the keys played, and the patterns the piano roll shows
Keys == {"c4", "e4"}
ChordKeys == Keys \cup {"g4"}
Patterns == {"pattern1", "pattern2"}
StepLengths == 1 .. MaxStepsLength
StartPositions == 0 .. MaxStart

Max(a, b) == IF a >= b THEN a ELSE b
Min(a, b) == IF a <= b THEN a ELSE b

\* the members when a call is entered
This ==
    [m_isRecording |-> m_isRecording,
     m_isStepInProgress |-> m_isStepInProgress,
     m_pattern |-> m_pattern,
     m_curStepNotes |-> m_curStepNotes,
     m_curStepStartPos |-> m_curStepStartPos,
     m_curStepLength |-> m_curStepLength,
     m_stepsLength |-> m_stepsLength,
     timerActive |-> timerActive,
     timerLeft |-> timerLeft,
     addedNotes |-> <<>>]

\* new StepNote(Note(length, pos, key, ...)): a step note starts pressed
StepNote(length, pos, key) ==
    [key |-> key, pos |-> pos, length |-> length, pressed |-> TRUE,
     sinceReleased |-> 0]

\* the index of the first step note with this key, 0 for nullptr
FindCurStepNote(t, key) ==
    LET notes == t.m_curStepNotes
        hits == {i \in 1 .. Len(notes) : notes[i].key = key}
    IN  IF hits = {} THEN 0
        ELSE CHOOSE i \in hits : \A j \in hits : i <= j

AllCurStepNotesReleased(t) ==
    \A i \in 1 .. Len(t.m_curStepNotes) : ~t.m_curStepNotes[i].pressed

GetCurStepEndPos(t) == t.m_curStepStartPos + t.m_curStepLength

UpdateCurStepNotes(t) ==
    [t EXCEPT !.m_curStepNotes =
        [i \in 1 .. Len(t.m_curStepNotes) |->
            [t.m_curStepNotes[i] EXCEPT !.length = t.m_curStepLength]]]

PrepareNewStep(t) ==
    [t EXCEPT !.m_curStepNotes = <<>>,
              !.m_isStepInProgress = FALSE,
              !.m_curStepStartPos = GetCurStepEndPos(t),
              !.m_curStepLength = 0]

ApplyStep(t) ==
    PrepareNewStep(
        [t EXCEPT !.addedNotes = t.addedNotes \o
            [i \in 1 .. Len(t.m_curStepNotes) |->
                [pattern |-> t.m_pattern,
                 key |-> t.m_curStepNotes[i].key,
                 pos |-> t.m_curStepNotes[i].pos,
                 length |-> t.m_curStepNotes[i].length]]])

\* faulty variant: the step is applied
DismissStep_Applies(t) == ApplyStep(t)

DismissStep(t) == IF ~t.m_isStepInProgress THEN t ELSE PrepareNewStep(t)

\* faulty variant: the start position is moved when a step is in progress too
StepForwards_MovesStart(t) ==
    [t EXCEPT !.m_curStepStartPos = t.m_curStepStartPos + t.m_stepsLength]

StepForwards(t) ==
    IF t.m_isStepInProgress
    THEN UpdateCurStepNotes(
             [t EXCEPT !.m_curStepLength = t.m_curStepLength + t.m_stepsLength])
    ELSE [t EXCEPT !.m_curStepStartPos = t.m_curStepStartPos + t.m_stepsLength]

\* faulty variant: max( ..., 0 ) left out
StepBackwards_NoClamp(t) ==
    IF t.m_isStepInProgress
    THEN UpdateCurStepNotes(
             IF t.m_curStepLength > 0
             THEN [t EXCEPT !.m_curStepLength = t.m_curStepLength - t.m_stepsLength]
             ELSE [t EXCEPT !.m_curStepStartPos =
                              t.m_curStepStartPos - t.m_stepsLength])
    ELSE [t EXCEPT !.m_curStepStartPos = t.m_curStepStartPos - t.m_stepsLength]

StepBackwards(t) ==
    IF t.m_isStepInProgress
    THEN UpdateCurStepNotes(
             IF t.m_curStepLength > 0
             THEN [t EXCEPT !.m_curStepLength =
                              Max(t.m_curStepLength - t.m_stepsLength, 0)]
             ELSE [t EXCEPT !.m_curStepStartPos =
                              Max(t.m_curStepStartPos - t.m_stepsLength, 0)])
    ELSE [t EXCEPT !.m_curStepStartPos =
                     Max(t.m_curStepStartPos - t.m_stepsLength, 0)]

\* faulty variant: the current step keeps its length in ticks
SetStepsLength_KeepLength(t, newLength) ==
    [t EXCEPT !.m_stepsLength = newLength]

SetStepsLength(t, newLength) ==
    LET t1 == IF t.m_isStepInProgress
              THEN UpdateCurStepNotes(
                       [t EXCEPT !.m_curStepLength =
                           TruncDiv(t.m_curStepLength, t.m_stepsLength) * newLength])
              ELSE t
    IN  [t1 EXCEPT !.m_stepsLength = newLength]

NotePressed(t, key) ==
    LET t1 == IF ~t.m_isStepInProgress
              THEN StepForwards([t EXCEPT !.m_isStepInProgress = TRUE])
              ELSE t
        i == FindCurStepNote(t1, key)
    IN  IF i = 0
        THEN [t1 EXCEPT !.m_curStepNotes =
                 Append(t1.m_curStepNotes,
                        StepNote(t1.m_stepsLength, t1.m_curStepStartPos, key))]
        ELSE IF ~t1.m_curStepNotes[i].pressed
        THEN [t1 EXCEPT !.m_curStepNotes[i].pressed = TRUE,
                        !.m_curStepNotes[i].sinceReleased = 0]
        ELSE t1

NoteReleased(t, key) ==
    LET i == FindCurStepNote(t, key)
    IN  IF i # 0 /\ t.m_curStepNotes[i].pressed
        THEN LET t1 == [t EXCEPT !.m_curStepNotes[i].pressed = FALSE,
                                 !.m_curStepNotes[i].sinceReleased = 0]
                 t2 == IF ~t1.timerActive
                       THEN [t1 EXCEPT
                               !.timerActive = TRUE,
                               !.timerLeft = REMOVE_RELEASED_NOTE_TIME_THRESHOLD_MS]
                       ELSE t1
             IN  IF AllCurStepNotesReleased(t2)
                 THEN IF t2.m_curStepLength > 0 THEN ApplyStep(t2)
                      ELSE DismissStep(t2)
                 ELSE t2
        ELSE t

Start(t, currentPosition, stepLength) ==
    LET t1 == SetStepsLength([t EXCEPT !.m_isRecording = TRUE], stepLength)
        QuantizedPosTicks == TruncDiv(currentPosition, Quantization) * Quantization
    IN  PrepareNewStep([t1 EXCEPT !.m_curStepStartPos = QuantizedPosTicks,
                                  !.m_curStepLength = 0])

Stop(t) == [t EXCEPT !.m_isRecording = FALSE]

\* faulty variant: the step in progress is kept
SetCurrentPattern_NoDismiss(t, newPattern) ==
    [t EXCEPT !.m_pattern = newPattern]

SetCurrentPattern(t, newPattern) ==
    LET t1 == IF t.m_pattern # NullPattern /\ t.m_pattern # newPattern
              THEN DismissStep(t)
              ELSE t
    IN  [t1 EXCEPT !.m_pattern = newPattern]

\* the sequence without the entries that are not in keep
RECURSIVE SelectNotes(_, _)
SelectNotes(notes, keep) ==
    IF notes = <<>> THEN <<>>
    ELSE IF keep[1] THEN <<Head(notes)>> \o SelectNotes(Tail(notes), Tail(keep))
    ELSE SelectNotes(Tail(notes), Tail(keep))

\* the smallest element of a nonempty set of numbers
MinOf(S) == CHOOSE x \in S : \A y \in S : x <= y

\* faulty variant: the timer is stopped also when released notes remain
RemoveNotesReleasedForTooLong_NoRearm(t) ==
    LET notes == t.m_curStepNotes
        keep == [i \in 1 .. Len(notes) |->
                    notes[i].pressed
                    \/ notes[i].sinceReleased < REMOVE_RELEASED_NOTE_TIME_THRESHOLD_MS]
    IN  [t EXCEPT !.m_curStepNotes = SelectNotes(notes, keep),
                  !.timerActive = FALSE,
                  !.timerLeft = 0]

\* faulty variant: a note is removed only when released for more than the
\* threshold
RemoveNotesReleasedForTooLong_Gt(t) ==
    LET notes == t.m_curStepNotes
        keep == [i \in 1 .. Len(notes) |->
                    notes[i].pressed
                    \/ notes[i].sinceReleased <= REMOVE_RELEASED_NOTE_TIME_THRESHOLD_MS]
        left == {REMOVE_RELEASED_NOTE_TIME_THRESHOLD_MS - notes[i].sinceReleased :
                    i \in {j \in 1 .. Len(notes) : ~notes[j].pressed /\ keep[j]}}
        nextTimout == IF left = {} THEN INT_MAX ELSE MinOf(left)
    IN  [t EXCEPT !.m_curStepNotes = SelectNotes(notes, keep),
                  !.timerActive = (nextTimout # INT_MAX),
                  !.timerLeft = IF nextTimout # INT_MAX THEN nextTimout ELSE 0]

RemoveNotesReleasedForTooLong(t) ==
    LET notes == t.m_curStepNotes
        keep == [i \in 1 .. Len(notes) |->
                    notes[i].pressed
                    \/ notes[i].sinceReleased < REMOVE_RELEASED_NOTE_TIME_THRESHOLD_MS]
        left == {REMOVE_RELEASED_NOTE_TIME_THRESHOLD_MS - notes[i].sinceReleased :
                    i \in {j \in 1 .. Len(notes) : ~notes[j].pressed /\ keep[j]}}
        nextTimout == IF left = {} THEN INT_MAX ELSE MinOf(left)
    IN  [t EXCEPT !.m_curStepNotes = SelectNotes(notes, keep),
                  !.timerActive = (nextTimout # INT_MAX),
                  !.timerLeft = IF nextTimout # INT_MAX THEN nextTimout ELSE 0]

\* d ms pass: the clocks of the released notes and the timer run on.  The
\* code compares timeSinceReleased with the threshold only, so the clock of
\* a note is not followed beyond it.
TimePasses(t, d) ==
    [t EXCEPT
        !.m_curStepNotes =
            [i \in 1 .. Len(t.m_curStepNotes) |->
                IF t.m_curStepNotes[i].pressed THEN t.m_curStepNotes[i]
                ELSE [t.m_curStepNotes[i] EXCEPT !.sinceReleased =
                         Min(@ + d, REMOVE_RELEASED_NOTE_TIME_THRESHOLD_MS)]],
        !.timerLeft = IF t.timerActive THEN Max(@ - d, 0) ELSE @]

\* a call returns: the members as the call left them
Return(t, op, key) ==
    /\ m_isRecording' = t.m_isRecording
    /\ m_isStepInProgress' = t.m_isStepInProgress
    /\ m_pattern' = t.m_pattern
    /\ m_curStepNotes' = t.m_curStepNotes
    /\ m_curStepStartPos' = t.m_curStepStartPos
    /\ m_curStepLength' = t.m_curStepLength
    /\ m_stepsLength' = t.m_stepsLength
    /\ timerActive' = t.timerActive
    /\ timerLeft' = t.timerLeft
    /\ addedNotes' = t.addedNotes
    /\ stepCall' = [op |-> op, key |-> key,
                     dropped |-> Len(m_curStepNotes) - Len(t.m_curStepNotes)]
    /\ UNCHANGED exceptStep

\* the cursor stays within the pattern
InPattern(t) == GetCurStepEndPos(t) <= MaxTicks

InitStep ==
    /\ StepIdle
    /\ BandIdle
    /\ WaveIdle
    /\ OwnIdle
    /\ OscIdle
    /\ RaceIdle

\* the piano roll starts a recording when it has a pattern
CallStart(currentPosition, stepLength) ==
    /\ m_pattern # NullPattern
    /\ InPattern(Start(This, currentPosition, stepLength))
    /\ Return(Start(This, currentPosition, stepLength), "start", NoKey)

CallStop ==
    /\ m_isRecording
    /\ Return(Stop(This), "stop", NoKey)

\* the piano roll hands over the keyboard's notes while recording
CallNotePressed(key) ==
    /\ m_isRecording
    /\ InPattern(NotePressed(This, key))
    /\ Return(NotePressed(This, key), "notePressed", key)

CallNoteReleased(key) ==
    /\ m_isRecording
    /\ Return(NoteReleased(This, key), "noteReleased", key)

\* keyPressEvent: Key_Right and Key_Left
CallStepForwards ==
    /\ m_isRecording
    /\ InPattern(StepForwards(This))
    /\ Return(StepForwards(This), "stepForwards", NoKey)

CallStepBackwards ==
    /\ m_isRecording
    /\ Return(StepBackwards(This), "stepBackwards", NoKey)

CallSetStepsLength(newLength) ==
    /\ m_isRecording
    /\ Return(SetStepsLength(This, newLength), "setStepsLength", NoKey)

\* the piano roll records into a pattern: it stops the recording before it
\* is left without one
CallSetCurrentPattern(newPattern) ==
    /\ m_isRecording => newPattern # NullPattern
    /\ Return(SetCurrentPattern(This, newPattern), "setCurrentPattern", NoKey)

\* m_updateReleasedTimer times out
Timeout ==
    /\ timerActive
    /\ timerLeft = 0
    /\ Return(RemoveNotesReleasedForTooLong(This), "timeout", NoKey)

\* time passes
Tick ==
    /\ TimePasses(This, TimeStep) # This
    /\ Return(TimePasses(This, TimeStep), "tick", NoKey)

\* the calls, for the keys played, the patterns shown and the steps lengths
\* chosen
StepCalls(keys, patterns, lengths) ==
    \/ \E pos \in StartPositions, len \in lengths : CallStart(pos, len)
    \/ CallStop
    \/ \E key \in keys : CallNotePressed(key)
    \/ \E key \in keys : CallNoteReleased(key)
    \/ CallStepForwards
    \/ CallStepBackwards
    \/ \E len \in lengths : CallSetStepsLength(len)
    \/ \E p \in patterns \cup {NullPattern} : CallSetCurrentPattern(p)
    \/ Timeout
    \/ Tick

NextStep == StepCalls(Keys, Patterns, StepLengths)

SpecStep == InitStep /\ [][NextStep]_vars

\* chords of three keys, in one pattern and with one steps length
NextChord == StepCalls(ChordKeys, {"pattern1"}, {MaxStepsLength})

SpecChord == InitStep /\ [][NextChord]_vars

\* the calls with one steps length, which the timer and the release of
\* notes do not depend on
NextStepLive == StepCalls(Keys, Patterns, {MaxStepsLength})

\* the timer's event is delivered, and time passes
SpecStepLive ==
    InitStep /\ [][NextStepLive]_vars /\ WF_vars(Timeout) /\ WF_vars(Tick)

----------------------------------------------------------------------------
(* wtSample of include/Oscillator.h, statement by statement, on the audio  *)
(* thread, while the host's thread writes the float m_freq refers to.  The *)
(* two arguments s_waveTables[shape][waveTableBandFromFreq(m_freq)][f1]    *)
(* and [...][f2] each call waveTableBandFromFreq(m_freq).  m_freq is a     *)
(* plain const float &: the write races with the reads, and the build      *)
(* either loads m_freq for each argument or loads it once and uses the     *)
(* band twice.                                                             *)

\* the phases wtSample is called with: a quarter of a period apart, over
\* [-PhaseSpan, PhaseSpan]
RacePhases == {k * (PhaseDen \div 4) : k \in (-(4 * PhaseSpan)) .. (4 * PhaseSpan)}

InitRace ==
    /\ pcWt = "idle"
    /\ sharedFreq \in WaveFreqs
    /\ wtPhase = 0
    /\ wtFirst = NoEntry
    /\ wtSecond = NoEntry
    /\ BandIdle
    /\ WaveIdle
    /\ OwnIdle
    /\ OscIdle
    /\ StepIdle

\* the host's thread sets the frequency
HostWriteFreq(f) ==
    /\ f # sharedFreq
    /\ sharedFreq' = f
    /\ UNCHANGED <<pcWt, wtPhase, wtFirst, wtSecond, exceptRace>>

\* wtSample is entered: frame, f1 and f2 are computed from _sample
WtEnter(num) ==
    /\ pcWt = "idle"
    /\ pcWt' = "indices"
    /\ wtPhase' = num
    /\ wtFirst' = NoEntry
    /\ wtSecond' = NoEntry
    /\ UNCHANGED <<sharedFreq, exceptRace>>

\* s_waveTables[shape][waveTableBandFromFreq(m_freq)][f1]
WtReadFirst ==
    /\ pcWt = "indices"
    /\ pcWt' = "first"
    /\ \E b \in WaveTableBandFromFreq(sharedFreq) :
          wtFirst' = [band |-> b, index |-> WtF1(wtPhase), freq |-> sharedFreq]
    /\ UNCHANGED <<sharedFreq, wtPhase, wtSecond, exceptRace>>

\* s_waveTables[shape][waveTableBandFromFreq(m_freq)][f2], m_freq loaded
\* again: the same float gives the same band
WtReadSecond ==
    /\ pcWt = "first"
    /\ pcWt' = "second"
    /\ \E b \in IF sharedFreq = wtFirst.freq THEN {wtFirst.band}
                ELSE WaveTableBandFromFreq(sharedFreq) :
          wtSecond' = [band |-> b, index |-> WtF2(WtF1(wtPhase)),
                       freq |-> sharedFreq]
    /\ UNCHANGED <<sharedFreq, wtPhase, wtFirst, exceptRace>>

\* the same argument in a build that loaded m_freq once for both
WtReuseFirst ==
    /\ pcWt = "first"
    /\ pcWt' = "second"
    /\ wtSecond' = [band |-> wtFirst.band, index |-> WtF2(WtF1(wtPhase)),
                    freq |-> wtFirst.freq]
    /\ UNCHANGED <<sharedFreq, wtPhase, wtFirst, exceptRace>>

\* linearInterpolate( ... ) is returned
WtReturn ==
    /\ pcWt = "second"
    /\ pcWt' = "idle"
    /\ UNCHANGED <<sharedFreq, wtPhase, wtFirst, wtSecond, exceptRace>>

NextRace ==
    \/ \E f \in WaveFreqs : HostWriteFreq(f)
    \/ \E num \in RacePhases : WtEnter(num)
    \/ WtReadFirst
    \/ WtReadSecond
    \/ WtReuseFirst
    \/ WtReturn

SpecRace == InitRace /\ [][NextRace]_vars

----------------------------------------------------------------------------
(* The claims about the band selector *)

\* C1: waveTableBandFromFreq returns a band in
\* [1, WAVE_TABLES_PER_WAVEFORM_COUNT - 1] for every frequency, also when the
\* quotient (69 + semitones) / SEMITONES_PER_TABLE is negative, 0 or beyond
\* the last band; band 0 is never returned.
C1_BandInRange ==
    pcBand = "done" =>
        /\ bandRet >= 1
        /\ bandRet <= WAVE_TABLES_PER_WAVEFORM_COUNT - 1

\* a frequency far below the tables (the quotient is negative) was mapped
C1_Witness ==
    /\ pcBand = "done"
    /\ bandArg = NoBand
    /\ freqArg.cls = "pos"
    /\ freqArg.cents < -6900
    /\ bandRet = 1

\* C2: for every band b in [1, WAVE_TABLES_PER_WAVEFORM_COUNT - 1],
\* waveTableBandFromFreq(freqFromWaveTableBand(b)) is within one band of b.
C2_RoundTrip ==
    (/\ pcBand = "done"
     /\ bandArg >= 1
     /\ bandArg <= WAVE_TABLES_PER_WAVEFORM_COUNT - 1)
    => Abs(bandRet - bandArg) <= 1

\* a band in the middle of the range went through both conversions
C2_Witness ==
    /\ pcBand = "done"
    /\ bandArg = 64
    /\ freqArg = FreqFromWaveTableBand(64)
    /\ bandRet \in {64, 65}

----------------------------------------------------------------------------
(* The claims about the wave-shape routines *)

InUnitInterval(num) == num >= 0 /\ num < PhaseDen

\* C3 as stated: squareSample(x) is exactly 1 for every x in [0, 0.5) and
\* exactly -1 for every x in [0.5, 1), 0.5 itself in the -1 half.
C3_SquareHalfOpen ==
    (waveFn = "square" /\ InUnitInterval(sampleArg)) =>
        sampleRet = IF 2 * sampleArg < PhaseDen THEN ValDen ELSE -ValDen

\* C3 as the code has it: squareSample(x) is exactly 1 for every x in
\* [0, 0.5] and exactly -1 for every x in (0.5, 1); 0.5 itself gives 1.
C3_SquareClosedLow ==
    (waveFn = "square" /\ InUnitInterval(sampleArg)) =>
        sampleRet = IF 2 * sampleArg <= PhaseDen THEN ValDen ELSE -ValDen

\* squareSample ran on the phase 0.5 and returned 1
C3_Witness ==
    /\ waveFn = "square"
    /\ 2 * sampleArg = PhaseDen
    /\ sampleRet = ValDen

\* C4: triangleSample(0) = 0, triangleSample(0.25) = 1, triangleSample(0.5) = 0,
\* triangleSample(0.75) = -1, and at 0.25 and 0.75, where the branch changes,
\* the pieces on both sides give the value returned.
C4_TriangleBreakpoints ==
    waveFn = "triangle" =>
        /\ sampleArg = 0 => sampleRet = 0
        /\ 4 * sampleArg = PhaseDen =>
              /\ sampleRet = ValDen
              /\ TriangleRise(sampleArg) = sampleRet
              /\ TriangleFall(sampleArg) = sampleRet
        /\ 2 * sampleArg = PhaseDen => sampleRet = 0
        /\ 4 * sampleArg = 3 * PhaseDen =>
              /\ sampleRet = -ValDen
              /\ TriangleFall(sampleArg) = sampleRet
              /\ TriangleTail(sampleArg) = sampleRet

\* triangleSample ran on the phase 0.75, the last breakpoint
C4_Witness ==
    /\ waveFn = "triangle"
    /\ 4 * sampleArg = 3 * PhaseDen
    /\ sampleRet = -ValDen

\* C5: for every phase in [0, 1), triangleSample, sawSample, squareSample,
\* moogSawSample and expSample return a value in [-1, 1].
C5_SampleInRange ==
    (/\ waveFn \in {"triangle", "saw", "square", "moogSaw", "exp"}
     /\ InUnitInterval(sampleArg))
    => (sampleRet >= -ValDen /\ sampleRet <= ValDen)

\* expSample ran on a phase of the mirrored half: expSample(0.75) = -0.5
C5_Witness ==
    /\ waveFn = "exp"
    /\ 4 * sampleArg = 3 * PhaseDen
    /\ 2 * sampleRet = -ValDen

\* C6: in wtSample, for every phase (negative, in [0, 1), or >= 1),
\* 0 <= f1 <= WAVETABLE_LENGTH - 1 and f2 = (f1 + 1) mod WAVETABLE_LENGTH.
C6_WtIndices ==
    waveFn = "wt" =>
        /\ wtRet.f1 >= 0
        /\ wtRet.f1 <= WAVETABLE_LENGTH - 1
        /\ wtRet.f2 = (wtRet.f1 + 1) % WAVETABLE_LENGTH

\* wtSample ran on a negative phase that falls on the last table entry,
\* which interpolates towards entry 0
C6_Witness ==
    /\ waveFn = "wt"
    /\ sampleArg < 0
    /\ wtRet.f1 = WAVETABLE_LENGTH - 1
    /\ wtRet.f2 = 0

----------------------------------------------------------------------------
(* The claim about ownership *)

\* the oscillators that have o as their sub-oscillator
Parents(o) == {p \in OscIds : status[p] # "free" /\ m_subOsc[p] = o}

\* the oscillators reached from o along m_subOsc
RECURSIVE ChainOf(_)
ChainOf(o) == IF o = NullOsc THEN {} ELSE {o} \cup ChainOf(m_subOsc[o])

\* o heads a chain of live oscillators, each below o with exactly one parent
ProperChain(o) ==
    /\ Parents(o) = {}
    /\ \A x \in ChainOf(o) : status[x] = "live" /\ deleteCount[x] = 0
    /\ \A x \in ChainOf(o) \ {o} : Cardinality(Parents(x)) = 1

\* C7: deleting the root of an acyclic chain in which each subordinate has
\* exactly one parent deletes every oscillator of the chain exactly once and
\* no other oscillator; an oscillator without subordinate deletes only itself.
C7_DestroyChain ==
    [][\A r \in OscIds :
          (ProperChain(r) /\ status'[r] = "deleted") =>
              /\ \A x \in ChainOf(r) :
                    status'[x] = "deleted" /\ deleteCount'[x] = 1
              /\ \A x \in OscIds \ ChainOf(r) :
                    status'[x] = status[x] /\ deleteCount'[x] = deleteCount[x]
              /\ ~heapCorrupt']_vars

\* a chain of three oscillators was deleted through its root, and a fourth
\* oscillator outside the chain is still live
C7_Witness ==
    \E r \in OscIds :
        /\ Parents(r) = {}
        /\ Cardinality(ChainOf(r)) = 3
        /\ \A x \in ChainOf(r) : status[x] = "deleted" /\ deleteCount[x] = 1
        /\ \A x \in ChainOf(r) \ {r} : Cardinality(Parents(x)) = 1
        /\ \E y \in OscIds \ ChainOf(r) : status[y] = "live"
        /\ ~heapCorrupt

----------------------------------------------------------------------------
(* The claims about the update handlers *)

\* a loop iteration of the handler has just run
FrameDone == frameLog.osc = Main

\* C8: the oscillator never caches the frequency: each wtSample call selects
\* its band as waveTableBandFromFreq of the value m_freq refers to at the
\* time of that call, also when the host changed it since the call before.
C8_FreshFrequency ==
    [][(frame' = frame + 1 /\ m_useWaveTable[Main]) =>
          frameLog'.band \in WaveTableBandFromFreq(hostFreq[Main])]_vars

\* two wtSample calls of one update call used different bands: the host
\* changed the frequency between them
C8_Witness ==
    /\ FrameDone
    /\ frameLog.prevBand # NoBand
    /\ frameLog.band # NoBand
    /\ frameLog.band # frameLog.prevBand
    /\ frameLog.band \in WaveTableBandFromFreq(hostFreq[Main])

\* C9: the phase of every oscillator is in [0, 1) after every frame of every
\* update handler, for positive and for negative phase increments.
C9_PhaseInUnitInterval ==
    pcUpdate # "off" =>
        \A o \in Voice : m_phase[o] >= 0 /\ m_phase[o] < PhaseDen

\* a frame with a negative increment took the phase from 0 backwards
C9_Witness ==
    /\ FrameDone
    /\ pcUpdate = "frames"
    /\ hostDetuning[Main] < 0
    /\ frameLog.phaseBefore = 0
    /\ frameLog.sampled = 0
    /\ m_phase[Main] > PhaseDen \div 2

\* C10: with SynchronizedBySubOsc, in every frame in which the phase of the
\* sub-oscillator wraps around, the main oscillator's sample of that frame
\* is taken at its phase offset m_phaseOffset, and in every other frame at
\* the phase the frame before left.
C10_SyncResetSameFrame ==
    (FrameDone /\ HasSub /\ modAlgo = "SynchronizedBySubOsc") =>
        frameLog.sampled = IF frameLog.subWrapped THEN m_phaseOffset[Main]
                           ELSE frameLog.phaseBefore

\* the sub-oscillator wrapped around in a frame that the main oscillator
\* entered away from its phase offset
C10_Witness ==
    /\ FrameDone
    /\ HasSub
    /\ modAlgo = "SynchronizedBySubOsc"
    /\ frameLog.subWrapped
    /\ frameLog.phaseBefore # m_phaseOffset[Main]
    /\ frameLog.sampled = m_phaseOffset[Main]

\* C11: recalcPhase tracks the offset applied last: when the host changed
\* the phase offset from o1 to o2, the call shifts the phase by o2 - o1 (modulo
\* one period) and takes o2 as the offset applied; when the offset is
\* unchanged the call leaves the phase as it is.  No other step changes the
\* offset applied.
C11_OffsetDeltaOnce ==
    [][IF pcUpdate = "idle" /\ pcUpdate' = "frames"
       THEN /\ m_phaseOffset'[Main] = hostPhaseOffset[Main]
            /\ m_phase'[Main] =
                  (m_phase[Main] + (hostPhaseOffset[Main] - m_phaseOffset[Main]))
                      % PhaseDen
            /\ hostPhaseOffset[Main] = m_phaseOffset[Main] =>
                  m_phase'[Main] = m_phase[Main]
       ELSE m_phaseOffset' = m_phaseOffset]_vars

\* an update call started after the host had raised the phase offset and
\* the frames before had moved the phase away from it: the phase is a
\* quarter of a period further
C11_Witness ==
    /\ pcUpdate = "frames"
    /\ frame = 0
    /\ frameLog.recalcDelta = PhaseDen \div 4
    /\ frameLog.recalcFrom # 0
    /\ m_phaseOffset[Main] = PhaseDen \div 4
    /\ m_phase[Main] = (frameLog.recalcFrom + PhaseDen \div 4) % PhaseDen

----------------------------------------------------------------------------
(* The claims about the step recorder *)

\* the call that makes this step
Called(op) == stepCall'.op = op

\* the step note of this key is in the list and pressed
IsPressed(key) ==
    /\ FindCurStepNote(This, key) # 0
    /\ m_curStepNotes[FindCurStepNote(This, key)].pressed

\* C12: noteReleased for a pressed note of the current step: if no other note
\* of the step is pressed, the step ends in the call - with a current step
\* length > 0 every note of the step is added to the pattern exactly once,
\* with the length 0 none is added - and afterwards the step-note list is
\* empty and no step is in progress; if another note of the step is still
\* pressed, nothing is added and the step stays in progress.
C12_ReleaseEndsStep ==
    [][\A key \in Keys :
          (Called("noteReleased") /\ stepCall'.key = key /\ IsPressed(key)) =>
              IF \A i \in 1 .. Len(m_curStepNotes) :
                     m_curStepNotes[i].pressed => m_curStepNotes[i].key = key
              THEN /\ m_curStepNotes' = <<>>
                   /\ ~m_isStepInProgress'
                   /\ IF m_curStepLength > 0
                      THEN /\ Len(addedNotes') = Len(m_curStepNotes)
                           /\ \A i \in 1 .. Len(m_curStepNotes) :
                                 addedNotes'[i] =
                                     [pattern |-> m_pattern,
                                      key |-> m_curStepNotes[i].key,
                                      pos |-> m_curStepNotes[i].pos,
                                      length |-> m_curStepNotes[i].length]
                      ELSE addedNotes' = <<>>
              ELSE /\ addedNotes' = <<>>
                   /\ m_isStepInProgress'
                   /\ Len(m_curStepNotes') = Len(m_curStepNotes)]_vars

\* the release of the last pressed note of a chord applied the step: both
\* notes of the chord are in the pattern
C12_Witness ==
    /\ stepCall.op = "noteReleased"
    /\ Len(addedNotes) = 2
    /\ addedNotes[1].key # addedNotes[2].key
    /\ addedNotes[1].pattern = m_pattern
    /\ m_curStepNotes = <<>>
    /\ ~m_isStepInProgress

\* C13: the first notePressed while no step is in progress starts a step
\* and advances it by one steps-length: the current step length goes from 0
\* to m_stepsLength and the start position stays; a notePressed while a step
\* is in progress changes neither the current step length nor the start
\* position.
C13_PressStartsStep ==
    [][Called("notePressed") =>
          /\ m_isStepInProgress'
          /\ m_curStepStartPos' = m_curStepStartPos
          /\ IF ~m_isStepInProgress
             THEN m_curStepLength = 0 /\ m_curStepLength' = m_stepsLength
             ELSE m_curStepLength' = m_curStepLength]_vars

\* a note was pressed away from the start of the pattern and started a step
\* of one steps-length there
C13_Witness ==
    /\ stepCall.op = "notePressed"
    /\ m_isStepInProgress
    /\ m_curStepNotes = <<StepNote(m_stepsLength, m_curStepStartPos, stepCall.key)>>
    /\ m_curStepLength = m_stepsLength
    /\ m_curStepStartPos > 0

\* the step note of this key is in the list and released
IsReleased(key) ==
    /\ FindCurStepNote(This, key) # 0
    /\ ~m_curStepNotes[FindCurStepNote(This, key)].pressed

\* a released note is in the list
SomeReleased(notes) == \E i \in 1 .. Len(notes) : ~notes[i].pressed

\* C14: a note of the step that was released while another note is held is,
\* unless it is pressed again, eventually removed from the step-note list:
\* the timer runs while a released note is in the list, every timeout
\* re-arms it when a released note remains, and only a timeout that leaves
\* no released note stops it.
C14_ReleasedNoteRemoved ==
    /\ \A key \in Keys : IsReleased(key) ~> ~IsReleased(key)
    /\ [](SomeReleased(m_curStepNotes) => timerActive)
    /\ [][Called("timeout") =>
             (timerActive' <=> SomeReleased(m_curStepNotes'))]_vars
    /\ [][(timerActive /\ ~timerActive') =>
             (Called("timeout") /\ ~SomeReleased(m_curStepNotes'))]_vars

\* a timeout found a note released for less than the threshold, with the
\* other note held, and re-armed the timer for the rest of the time
C14_Witness ==
    /\ stepCall.op = "timeout"
    /\ Len(m_curStepNotes) = 2
    /\ \E i, j \in 1 .. 2 :
          /\ m_curStepNotes[i].pressed
          /\ ~m_curStepNotes[j].pressed
          /\ m_curStepNotes[j].sinceReleased > 0
          /\ timerLeft = REMOVE_RELEASED_NOTE_TIME_THRESHOLD_MS
                             - m_curStepNotes[j].sinceReleased
    /\ timerActive

\* a step note that a timeout leaves in the list
KeptAtTimeout(note) ==
    note.pressed \/ note.sinceReleased < REMOVE_RELEASED_NOTE_TIME_THRESHOLD_MS

\* C15: removeNotesReleasedForTooLong removes exactly the released notes
\* whose time since the release is >= 70 ms: a pressed note and a released
\* note below the threshold stay, in their order; the timer is then restarted
\* with the minimum of 70 - timeSinceReleased over the released notes that
\* remain (and stopped when none remains).
C15_RemovesAtThreshold ==
    [][Called("timeout") =>
          /\ m_curStepNotes' = SelectSeq(m_curStepNotes, KeptAtTimeout)
          /\ LET remain == {i \in 1 .. Len(m_curStepNotes') :
                               ~m_curStepNotes'[i].pressed}
                 rest(i) == REMOVE_RELEASED_NOTE_TIME_THRESHOLD_MS
                                - m_curStepNotes'[i].sinceReleased
             IN  IF remain = {}
                 THEN ~timerActive'
                 ELSE /\ timerActive'
                      /\ \E i \in remain : timerLeft' = rest(i)
                      /\ \A i \in remain : timerLeft' <= rest(i)]_vars

\* a timeout removed one note of a chord, left the pressed one and the one
\* released half the threshold ago, and restarted the timer for the other half
C15_Witness ==
    /\ stepCall.op = "timeout"
    /\ stepCall.dropped = 1
    /\ Len(m_curStepNotes) = 2
    /\ \E i, j \in 1 .. 2 :
          /\ m_curStepNotes[i].pressed
          /\ ~m_curStepNotes[j].pressed
          /\ m_curStepNotes[j].sinceReleased = TimeStep
    /\ timerActive
    /\ timerLeft = REMOVE_RELEASED_NOTE_TIME_THRESHOLD_MS - TimeStep

\* C16: stepBackwards with a step in progress shortens the current step
\* length by one steps-length when it is positive and moves the start
\* position one steps-length back only when the length is 0 already, both
\* clamped at 0; after every sequence of calls the current step length and
\* the start position are not negative.
C16_NeverNegative ==
    /\ [](m_curStepLength >= 0 /\ m_curStepStartPos >= 0)
    /\ [][(Called("stepBackwards") /\ m_isStepInProgress) =>
             IF m_curStepLength > 0
             THEN /\ m_curStepLength' = Max(m_curStepLength - m_stepsLength, 0)
                  /\ m_curStepStartPos' = m_curStepStartPos
             ELSE /\ m_curStepLength' = 0
                  /\ m_curStepStartPos' = Max(m_curStepStartPos - m_stepsLength, 0)]_vars

\* stepBackwards on a step of length 0 that started one tick into the
\* pattern, with a steps-length of two ticks: the start position is 0
C16_Witness ==
    /\ stepCall.op = "stepBackwards"
    /\ m_isStepInProgress
    /\ m_curStepLength = 0
    /\ m_curStepStartPos = 0
    /\ m_stepsLength = 2
    /\ Len(m_curStepNotes) > 0
    /\ m_curStepNotes[1].pos = 1

\* C17: setStepsLength with a step in progress keeps the number of steps:
\* the new current step length is (old current step length / old
\* steps-length) * new steps-length, and every note of the step gets that
\* length; with no step in progress only the steps-length changes, the
\* current step length and the start position stay.
C17_KeepsNumberOfSteps ==
    [][Called("setStepsLength") =>
          IF m_isStepInProgress
          THEN /\ m_curStepLength' =
                      (m_curStepLength \div m_stepsLength) * m_stepsLength'
               /\ m_curStepLength' \div m_stepsLength' =
                      m_curStepLength \div m_stepsLength
               /\ Len(m_curStepNotes') = Len(m_curStepNotes)
               /\ \A i \in 1 .. Len(m_curStepNotes') :
                     m_curStepNotes'[i].length = m_curStepLength'
          ELSE /\ m_curStepLength' = m_curStepLength
               /\ m_curStepStartPos' = m_curStepStartPos
               /\ m_curStepNotes' = m_curStepNotes]_vars

\* a step of two steps was given a longer steps-length: it is two of the
\* longer steps long, beyond the length the cursor keys can give it, and so
\* is its note
C17_Witness ==
    /\ stepCall.op = "setStepsLength"
    /\ m_isStepInProgress
    /\ m_curStepLength = 2 * m_stepsLength
    /\ m_curStepStartPos + m_curStepLength > MaxTicks
    /\ Len(m_curStepNotes) > 0
    /\ \A i \in 1 .. Len(m_curStepNotes) :
          m_curStepNotes[i].length = m_curStepLength

\* C18: setCurrentPattern with a pattern set and another pattern given
\* dismisses the step in progress: its notes are discarded, nothing is added
\* to the old or to the new pattern, and no step is in progress afterwards;
\* with the same pattern given again, or with no pattern set before, the
\* step in progress and its notes stay as they are.
C18_PatternChangeDismisses ==
    [][Called("setCurrentPattern") =>
          /\ addedNotes' = <<>>
          /\ IF m_pattern # NullPattern /\ m_pattern' # m_pattern
             THEN /\ m_curStepNotes' = <<>>
                  /\ ~m_isStepInProgress'
             ELSE /\ m_curStepNotes' = m_curStepNotes
                  /\ m_isStepInProgress' = m_isStepInProgress]_vars

\* the second pattern was set while a step with a note was in progress in
\* the first: the note is gone, and in no pattern
C18_Witness ==
    /\ stepCall.op = "setCurrentPattern"
    /\ stepCall.dropped > 0
    /\ m_pattern = "pattern2"
    /\ m_curStepNotes = <<>>
    /\ ~m_isStepInProgress
    /\ addedNotes = <<>>

----------------------------------------------------------------------------
(* The claim about wtSample of include/Oscillator.h beside the host's      *)
(* thread                                                                  *)

\* C19: the two table entries one wtSample call interpolates are taken from
\* the same frequency band, also when the host's thread changes the
\* frequency m_freq refers to while the audio thread is inside the call.
C19_SameBandInOneCall ==
    pcWt = "second" => wtFirst.band = wtSecond.band

====
